---- MODULE Spec2Model ----
(***************************************************************************)
(* State-machine model of the Reddit dump filter:                          *)
(*   reddit_filter_utils.py        FileReader, load_filter_values,         *)
(*                                 build_jq_filter, generate_output_path   *)
(*   reddit_zst_filter_zstandard.py  process_file_python, main             *)
(*   reddit_zst_filter_zstd_jq.py    process_file_shell                    *)
(* Text is a sequence of code points, a byte stream a sequence of 0..255.  *)
(***************************************************************************)
EXTENDS Integers, Sequences, FiniteSets, TLC

\* ------------------------------------------------------------------------
\* Bounds of the model
\* ------------------------------------------------------------------------
MaxChars == 4        \* symbols of a generated text (decode specification)
MaxChunk == 3        \* largest chunk_size_bytes tried (decode specification)
MaxWindow == 4       \* largest max_window_size_bytes tried (decode specification)
MaxLines == 2        \* newline-terminated lines of a generated dump file
SmallChunk == 4      \* chunk_size_bytes that splits every record
SmallWindow == 8     \* max_window_size_bytes used with SmallChunk
BigChunk == 48       \* chunk_size_bytes (and window) that holds a whole file
MaxFiles == 2        \* input files of a run
MaxRuns == 2         \* invocations of main over the same input tree
MaxWord == 2         \* letters of a generated field value (filter specification)

\* ------------------------------------------------------------------------
\* Characters
\* ------------------------------------------------------------------------
\* Code points used by the model.
Ch == [nl |-> 10, quote |-> 34, comma |-> 44, colon |-> 58, lbrack |-> 91,
       rbrack |-> 93, lbrace |-> 123, rbrace |-> 125, space |-> 32,
       a |-> 97, eacute |-> 233, grin |-> 128512]

\* A symbol of a generated stream is a code point, or (negative) a raw byte
\* that is written to the stream as is: -195 is a lone 0xC3 lead byte.
RawLead == 0 - 195

Max(x, y) == IF x >= y THEN x ELSE y
Min(x, y) == IF x <= y THEN x ELSE y

\* UTF-8 encoding of one symbol (what the dump's producer wrote).
\* F applied to the value of e, with e evaluated once.
Bind(e, F(_)) == CHOOSE y \in { F(x) : x \in { e } } : TRUE

Utf8Encode(cp) ==
  IF cp < 0 THEN << 0 - cp >>
  ELSE IF cp < 128 THEN << cp >>
  ELSE IF cp < 2048 THEN << 192 + (cp \div 64), 128 + (cp % 64) >>
  ELSE IF cp < 65536
    THEN << 224 + (cp \div 4096), 128 + ((cp \div 64) % 64), 128 + (cp % 64) >>
  ELSE << 240 + (cp \div 262144), 128 + ((cp \div 4096) % 64),
          128 + ((cp \div 64) % 64), 128 + (cp % 64) >>

RECURSIVE EncodeText(_)
EncodeText(t) ==
  IF t = << >> THEN << >> ELSE Utf8Encode(Head(t)) \o EncodeText(Tail(t))

IsCont(b) == b >= 128 /\ b <= 191

\* Number of bytes announced by a lead byte, 0 when it cannot start a character.
SeqLenOfLead(b) ==
  IF b < 128 THEN 1
  ELSE IF b >= 194 /\ b <= 223 THEN 2
  ELSE IF b >= 224 /\ b <= 239 THEN 3
  ELSE IF b >= 240 /\ b <= 244 THEN 4
  ELSE 0

\* Code point of the n-byte sequence starting at bytes[i].
CodePointAt(bytes, i, n) ==
  IF n = 1 THEN bytes[i]
  ELSE IF n = 2 THEN (bytes[i] - 192) * 64 + (bytes[i + 1] - 128)
  ELSE IF n = 3
    THEN (bytes[i] - 224) * 4096 + (bytes[i + 1] - 128) * 64 + (bytes[i + 2] - 128)
  ELSE (bytes[i] - 240) * 262144 + (bytes[i + 1] - 128) * 4096
       + (bytes[i + 2] - 128) * 64 + (bytes[i + 3] - 128)

\* Strict UTF-8: every continuation byte present, shortest form, no
\* surrogate, at most U+10FFFF.
WellFormedAt(bytes, i, n) ==
  /\ n > 0
  /\ i + n - 1 <= Len(bytes)
  /\ \A k \in 1..(n - 1) : IsCont(bytes[i + k])
  /\ LET cp == CodePointAt(bytes, i, n)
     IN /\ (n = 2 => cp >= 128)
        /\ (n = 3 => cp >= 2048 /\ ~(cp >= 55296 /\ cp <= 57343))
        /\ (n = 4 => cp >= 65536 /\ cp <= 1114111)

\* bytes.decode(): the text, or failure (UnicodeDecodeError) when any byte
\* of the chunk is not part of a complete well-formed character.
DecodeLenient(bytes) ==
  LET RECURSIVE Go(_)
      Go(i) ==
        IF i > Len(bytes) THEN << >>
        ELSE LET n == SeqLenOfLead(bytes[i])
             IN IF WellFormedAt(bytes, i, n)
                  THEN << CodePointAt(bytes, i, n) >> \o Go(i + n)
                ELSE Go(i + 1)
  IN [ok |-> TRUE, s |-> Go(1)]

Decode(bytes) ==
  LET Go[i \in 1..(Len(bytes) + 1), acc \in Seq(Int)] ==
        IF i > Len(bytes) THEN [ok |-> TRUE, s |-> acc]
        ELSE LET n == SeqLenOfLead(bytes[i])
             IN IF ~WellFormedAt(bytes, i, n) THEN [ok |-> FALSE, s |-> << >>]
                ELSE Go[i + n, Append(acc, CodePointAt(bytes, i, n))]
  IN Go[1, << >>]

\* str.split("\n"): the segments between newlines, always at least one.
Split(s) ==
  LET RECURSIVE Go(_, _)
      Go(i, cur) ==
        IF i > Len(s) THEN << cur >>
        ELSE IF s[i] = Ch.nl THEN << cur >> \o Go(i + 1, << >>)
        ELSE Go(i + 1, Append(cur, s[i]))
  IN Go(1, << >>)

AllButLast(q) == SubSeq(q, 1, Len(q) - 1)
Last(q) == q[Len(q)]

\* ------------------------------------------------------------------------
\* json_loads (orjson.loads) on the JSON subset the model's lines use:
\* objects, arrays, strings without escapes, unsigned integers, null/true/
\* false, no white space.  A value is [t, v]: t its Python type.
\* ------------------------------------------------------------------------
ParseFail == [ok |-> FALSE, val |-> [t |-> "none", v |-> << >>], next |-> 0]

IsDigit(c) == c >= 48 /\ c <= 57

HasPrefixAt(s, i, w) ==
  i + Len(w) - 1 <= Len(s) /\ SubSeq(s, i, i + Len(w) - 1) = w

\* s[i] is the opening quote.
ParseString(s, i) ==
  LET closing == { j \in (i + 1)..Len(s) : s[j] = Ch.quote }
  IN IF closing = { } THEN ParseFail
     ELSE LET j == CHOOSE x \in closing : \A y \in closing : x <= y
              body == SubSeq(s, i + 1, j - 1)
          IN IF \E k \in 1..Len(body) : body[k] < 32 \/ body[k] = 92
               THEN ParseFail
             ELSE [ok |-> TRUE, val |-> [t |-> "str", v |-> body], next |-> j + 1]

ParseNumber(s, i) ==
  LET RECURSIVE End(_)
      End(j) == IF j <= Len(s) /\ IsDigit(s[j]) THEN End(j + 1) ELSE j
      e == End(i)
  IN IF s[i] = 48 /\ e > i + 1 THEN ParseFail
     ELSE [ok |-> TRUE, val |-> [t |-> "int", v |-> SubSeq(s, i, e - 1)], next |-> e]

RECURSIVE ParseValue(_, _), ParseElements(_, _, _), ParseMembers(_, _, _)
ParseValue(s, i) ==
  IF i > Len(s) THEN ParseFail
  ELSE IF s[i] = Ch.quote THEN ParseString(s, i)
  ELSE IF IsDigit(s[i]) THEN ParseNumber(s, i)
  ELSE IF HasPrefixAt(s, i, << 110, 117, 108, 108 >>)
    THEN [ok |-> TRUE, val |-> [t |-> "NoneType", v |-> << >>], next |-> i + 4]
  ELSE IF HasPrefixAt(s, i, << 116, 114, 117, 101 >>)
    THEN [ok |-> TRUE, val |-> [t |-> "bool", v |-> << 1 >>], next |-> i + 4]
  ELSE IF HasPrefixAt(s, i, << 102, 97, 108, 115, 101 >>)
    THEN [ok |-> TRUE, val |-> [t |-> "bool", v |-> << 0 >>], next |-> i + 5]
  ELSE IF s[i] = Ch.lbrack
    THEN IF i + 1 <= Len(s) /\ s[i + 1] = Ch.rbrack
           THEN [ok |-> TRUE, val |-> [t |-> "list", v |-> << >>], next |-> i + 2]
         ELSE ParseElements(s, i + 1, << >>)
  ELSE IF s[i] = Ch.lbrace
    THEN IF i + 1 <= Len(s) /\ s[i + 1] = Ch.rbrace
           THEN [ok |-> TRUE, val |-> [t |-> "dict", v |-> << >>], next |-> i + 2]
         ELSE ParseMembers(s, i + 1, << >>)
  ELSE ParseFail

ParseElements(s, i, acc) ==
  LET r == ParseValue(s, i)
  IN IF ~r.ok \/ r.next > Len(s) THEN ParseFail
     ELSE IF s[r.next] = Ch.comma THEN ParseElements(s, r.next + 1, Append(acc, r.val))
     ELSE IF s[r.next] = Ch.rbrack
       THEN [ok |-> TRUE, val |-> [t |-> "list", v |-> Append(acc, r.val)],
             next |-> r.next + 1]
     ELSE ParseFail

ParseMembers(s, i, acc) ==
  IF i > Len(s) \/ s[i] # Ch.quote THEN ParseFail
  ELSE LET k == ParseString(s, i)
       IN IF ~k.ok \/ k.next > Len(s) \/ s[k.next] # Ch.colon THEN ParseFail
          ELSE LET r == ParseValue(s, k.next + 1)
                   item == [key |-> k.val.v, val |-> r.val]
               IN IF ~r.ok \/ r.next > Len(s) THEN ParseFail
                  ELSE IF s[r.next] = Ch.comma
                    THEN ParseMembers(s, r.next + 1, Append(acc, item))
                  ELSE IF s[r.next] = Ch.rbrace
                    THEN [ok |-> TRUE, val |-> [t |-> "dict", v |-> Append(acc, item)],
                          next |-> r.next + 1]
                  ELSE ParseFail

\* ok = FALSE is orjson.JSONDecodeError (a json.JSONDecodeError).
json_loads(data) ==
  Bind(ParseValue(data, 1), LAMBDA r :
    IF r.ok /\ r.next = Len(data) + 1 THEN [ok |-> TRUE, val |-> r.val]
    ELSE [ok |-> FALSE, val |-> ParseFail.val])

\* obj[field]: the value, or the exception Python raises.
Subscript(obj, field) ==
  IF obj.t # "dict" THEN [exc |-> "TypeError", val |-> ParseFail.val]
  ELSE LET hits == { k \in 1..Len(obj.v) : obj.v[k].key = field }
       IN IF hits = { } THEN [exc |-> "KeyError", val |-> ParseFail.val]
          ELSE [exc |-> "none",
                val |-> obj.v[CHOOSE k \in hits : \A j \in hits : j <= k].val]

\* str.lower() on the letters the model uses (ASCII and Latin-1).
LowerChar(c) ==
  IF (c >= 65 /\ c <= 90) \/ (c >= 192 /\ c <= 222 /\ c # 215) THEN c + 32 ELSE c

Lower(s) == [i \in 1..Len(s) |-> LowerChar(s[i])]

\* ------------------------------------------------------------------------
\* Filter criterion
\* ------------------------------------------------------------------------
\* --field: "s" in every run of the model.
Field == << 115 >>

\* str.split(sep) for a one-character separator.
SplitOn(s, sep) ==
  LET RECURSIVE Go(_, _)
      Go(i, cur) ==
        IF i > Len(s) THEN << cur >>
        ELSE IF s[i] = sep THEN << cur >> \o Go(i + 1, << >>)
        ELSE Go(i + 1, Append(cur, s[i]))
  IN Go(1, << >>)

IsSpace(c) == c = 32 \/ (c >= 9 /\ c <= 13)

\* str.strip()
RECURSIVE Strip(_)
Strip(s) ==
  IF s = << >> THEN s
  ELSE IF IsSpace(Head(s)) THEN Strip(Tail(s))
  ELSE IF IsSpace(Last(s)) THEN Strip(AllButLast(s))
  ELSE s

Range(q) == { q[i] : i \in 1..Len(q) }

\* Order of Python strings (by code point).
RECURSIVE StrLE(_, _)
StrLE(x, y) ==
  IF x = << >> THEN TRUE
  ELSE IF y = << >> THEN FALSE
  ELSE IF Head(x) # Head(y) THEN Head(x) < Head(y)
  ELSE StrLE(Tail(x), Tail(y))

\* min(values) of a non-empty set of strings
PyMin(S) == CHOOSE x \in S : \A y \in S : StrLE(x, y)

\* re.compile on the pattern subset the model uses: literal characters with
\* an optional leading ^ and an optional trailing $.  Any other use of a
\* regex operator character is outside the subset and, for the characters
\* ( ) [ * + ?, a re.error.
RegexOps == { 40, 41, 42, 43, 63, 91, 92, 94, 36, 46, 124, 123, 125 }

re_compile(p) ==
  LET anchored_start == p # << >> /\ Head(p) = 94
      p1 == IF anchored_start THEN Tail(p) ELSE p
      anchored_end == p1 # << >> /\ Last(p1) = 36
      lit == IF anchored_end THEN AllButLast(p1) ELSE p1
  IN [ok |-> \A i \in 1..Len(lit) : lit[i] \notin RegexOps,
      pattern |-> p, anchored_start |-> anchored_start,
      anchored_end |-> anchored_end, lit |-> lit]

\* reg.search(s)
re_search(reg, s) ==
  LET n == Len(reg.lit)
      At(i) == i + n - 1 <= Len(s) /\ SubSeq(s, i, i + n - 1) = reg.lit
      starts == IF reg.anchored_start THEN { 1 } ELSE 1..(Len(s) + 1)
  IN \E i \in starts : At(i) /\ (reg.anchored_end => i + n - 1 = Len(s))

\* The set built on the first line of load_filter_values.
RawValues(value) ==
  { Strip(v) : v \in { w \in Range(SplitOn(value, Ch.comma)) : Strip(w) # << >> } }

\* load_filter_values skipping the patterns that do not compile.
load_filter_values_skip(value, regex, order) ==
  IF regex
    THEN [exit |-> FALSE,
          values |-> SelectSeq([i \in 1..Len(order) |-> re_compile(order[i])],
                               LAMBDA r : r.ok)]
  ELSE [exit |-> FALSE, values |-> { Lower(v) : v \in RawValues(value) }]

\* load_filter_values: exit = TRUE is sys.exit(1).  In regex mode the result
\* is the list of compiled patterns in the set's iteration order `order`, a
\* sequence that enumerates RawValues; otherwise the set of lower-cased values.
load_filter_values(value, regex, order) ==
  IF regex
    THEN IF \E v \in RawValues(value) : ~re_compile(v).ok
           THEN [exit |-> TRUE, values |-> << >>]
         ELSE [exit |-> FALSE, values |-> [i \in 1..Len(order) |-> re_compile(order[i])]]
  ELSE [exit |-> FALSE, values |-> { Lower(v) : v \in RawValues(value) }]

\* The sequences that enumerate a set once each.
Orders(S) ==
  { q \in [1..Cardinality(S) -> S] : \A i, j \in 1..Cardinality(S) : q[i] = q[j] => i = j }

\* The exact-mode comparison with the single-value fast path taken whenever
\* the set is not empty.
ExactMatchFastAlways(values, observed) ==
  IF values # { } THEN observed = PyMin(values) ELSE observed \in values

\* Lines 35-37 and 54-57 of process_file_python: value = min(values) when
\* there is exactly one value, then == value, else membership.
ExactMatch(values, observed) ==
  LET value == IF Cardinality(values) = 1 THEN << PyMin(values) >> ELSE << >>
  IN IF value # << >> THEN observed = value[1] ELSE observed \in values

\* The regex loop trying the first pattern of the list only.
RegexMatchFirstOnly(values, observed) ==
  values # << >> /\ re_search(values[1], observed)

\* Lines 48-52: the patterns are tried in list order until one matches.
RegexMatch(values, observed) ==
  LET RECURSIVE Loop(_)
      Loop(i) ==
        IF i > Len(values) THEN FALSE
        ELSE IF re_search(values[i], observed) THEN TRUE
        ELSE Loop(i + 1)
  IN Loop(1)

\* The body of the for loop of process_file_python on one line:
\*   "matched" / "unmatched": the record was classified,
\*   "error": KeyError, JSONDecodeError or AttributeError, caught at line 61,
\*   "abort": any other exception, which leaves the loop (line 73).
ClassifyLine(line, values, regex) ==
  Bind(json_loads(line), LAMBDA p :
  Bind(Subscript(p.val, Field), LAMBDA f :
    IF ~p.ok THEN [out |-> "error", exc |-> "JSONDecodeError", obj |-> p.val]
    ELSE IF f.exc = "TypeError" THEN [out |-> "abort", exc |-> "TypeError", obj |-> p.val]
    ELSE IF f.exc = "KeyError" THEN [out |-> "error", exc |-> "KeyError", obj |-> p.val]
    ELSE IF f.val.t # "str"
      THEN [out |-> "error", exc |-> "AttributeError", obj |-> p.val]
    ELSE Bind(Lower(f.val.v), LAMBDA observed :
           LET matched == IF regex THEN RegexMatch(values, observed)
                          ELSE ExactMatch(values, observed)
           IN [out |-> IF matched THEN "matched" ELSE "unmatched", exc |-> "none",
               obj |-> p.val])))

\* ------------------------------------------------------------------------
\* State
\* ------------------------------------------------------------------------
VARIABLES
  cfg,        \* config.json: the keys present, among chunk_size, max_window,
              \* progress_log_interval
  args,       \* command line: [value, regex]
  files,      \* enumerated input files: sequence of [dir, base, text, data]
  main_pc,    \* position of main()
  idx,        \* index in input_files of the file being processed
  gen,        \* the yield_lines generator of the current file
  yielded,    \* lines the generator has yielded for the current file
  pf,         \* locals of process_file_python for the current file
  values,     \* the criterion returned by load_filter_values
  totals,     \* main's total_processed, total_lines, total_matched, total_errors
  results,    \* the result tuples returned so far in this run, with their cause
  sink,       \* the output directory: per output path, the rows on disk
  run,        \* number of the invocation of main (1 = first run)
  probe,      \* filter specification: the line under test
  verdict,    \* filter specification: what each pipeline did with it
  sh          \* locals of process_file_shell and its temporary directory

vars == << cfg, args, files, main_pc, idx, gen, yielded, pf, values, totals,
           results, sink, run, probe, verdict, sh >>
inputVars == << cfg, args, files >>
mainVars == << values, totals, results, run >>
probeVars == << probe, verdict >>

\* ------------------------------------------------------------------------
\* FileReader
\* ------------------------------------------------------------------------
\* reader.read(chunk_size): the next chunk_size bytes, fewer at end of stream.
ReaderRead(data, pos, chunk_size) ==
  SubSeq(data, pos + 1, Min(pos + chunk_size, Len(data)))

\* read_and_decode giving up one read later: bytes_read > max_window_size + chunk_size.
RECURSIVE read_and_decode_late(_, _, _, _, _, _)
read_and_decode_late(data, pos, chunk_size, max_window_size, previous_chunk, bytes_read) ==
  Bind(ReaderRead(data, pos, chunk_size), LAMBDA got :
  Bind(bytes_read + chunk_size, LAMBDA br :
  Bind(previous_chunk \o got, LAMBDA chunk :
  Bind(Decode(chunk), LAMBDA d :
    IF d.ok
      THEN [ok |-> TRUE, text |-> d.s, pos |-> pos + Len(got), bytes_read |-> br]
    ELSE IF br > max_window_size + chunk_size
      THEN [ok |-> FALSE, text |-> << >>, pos |-> pos + Len(got), bytes_read |-> br]
    ELSE read_and_decode_late(data, pos + Len(got), chunk_size, max_window_size,
                              chunk, br)))))

RECURSIVE read_and_decode(_, _, _, _, _, _)
read_and_decode(data, pos, chunk_size, max_window_size, previous_chunk, bytes_read) ==
  Bind(ReaderRead(data, pos, chunk_size), LAMBDA got :
  Bind(bytes_read + chunk_size, LAMBDA br :
  Bind(previous_chunk \o got, LAMBDA chunk :
  Bind(Decode(chunk), LAMBDA d :
    IF d.ok
      THEN [ok |-> TRUE, text |-> d.s, pos |-> pos + Len(got), bytes_read |-> br]
    ELSE IF br > max_window_size
      THEN [ok |-> FALSE, text |-> << >>, pos |-> pos + Len(got), bytes_read |-> br]
    ELSE read_and_decode(data, pos + Len(got), chunk_size, max_window_size, chunk, br)))))

GenInit ==
  [st |-> "active", pos |-> 0, buffer |-> << >>, pending |-> << >>,
   call_pos |-> 0, bytes_read |-> 0]

\* (buffer + chunk).split("\n")
AssembleLines(buffer, chunk) == Split(buffer \o chunk)

\* config.json with every key the file processing reads.
FullConfig(c, w) == [chunk_size |-> c, max_window |-> w, progress_log_interval |-> 1]

\* Config.get(*keys): the value at the key path, or the KeyError of value[key].
Config_get(key) ==
  IF key \in DOMAIN cfg THEN [exc |-> "none", val |-> cfg[key]]
  ELSE [exc |-> "KeyError", val |-> 0]

\* yield_lines emitting the pending buffer as a last line at end of stream.
YieldLinesIterFlush(g, data) ==
  Bind(read_and_decode(data, g.pos, cfg.chunk_size, cfg.max_window, << >>, 0), LAMBDA r :
  Bind(AssembleLines(g.buffer, r.text), LAMBDA lines :
     IF ~r.ok
       THEN [g EXCEPT !.st = "raised", !.pos = r.pos, !.call_pos = g.pos,
                      !.bytes_read = r.bytes_read]
     ELSE IF r.text = << >>
       THEN IF g.buffer = << >>
              THEN [g EXCEPT !.st = "eof", !.pos = r.pos, !.call_pos = g.pos,
                             !.bytes_read = r.bytes_read]
            ELSE [g EXCEPT !.pending = << g.buffer >>, !.buffer = << >>]
     ELSE [g EXCEPT !.pos = r.pos, !.call_pos = g.pos, !.bytes_read = r.bytes_read,
                    !.pending = AllButLast(lines), !.buffer = Last(lines)]))

\* One iteration of the while loop of yield_lines, up to its first yield,
\* its break or the UnicodeError of read_and_decode.
YieldLinesIter(g, data) ==
  IF Config_get("chunk_size").exc # "none" \/ Config_get("max_window").exc # "none"
    THEN [g EXCEPT !.st = "keyerror"]
  ELSE
  Bind(read_and_decode(data, g.pos, cfg.chunk_size, cfg.max_window, << >>, 0), LAMBDA r :
  Bind(AssembleLines(g.buffer, r.text), LAMBDA lines :
     IF ~r.ok
       THEN [g EXCEPT !.st = "raised", !.pos = r.pos, !.call_pos = g.pos,
                      !.bytes_read = r.bytes_read]
     ELSE IF r.text = << >>
       THEN [g EXCEPT !.st = "eof", !.pos = r.pos, !.call_pos = g.pos,
                      !.bytes_read = r.bytes_read]
     ELSE [g EXCEPT !.pos = r.pos, !.call_pos = g.pos, !.bytes_read = r.bytes_read,
                    !.pending = AllButLast(lines), !.buffer = Last(lines)]))

CurData == files[pf.file].data

\* The generator is resumed with no line left of the last chunk.
ReadChunk ==
  /\ main_pc = "in_file"
  /\ gen.st = "active"
  /\ gen.pending = << >>
  /\ pf.pc = "scan"
  /\ \E g \in { YieldLinesIter(gen, CurData) } : gen' = g
  /\ UNCHANGED << inputVars, main_pc, idx, yielded, pf, mainVars, sink, probeVars, sh >>

\* A caller that only collects the lines: for line in yield_lines(path).
CollectLine ==
  /\ main_pc = "in_file"
  /\ gen.st = "active"
  /\ gen.pending # << >>
  /\ yielded' = Append(yielded, Head(gen.pending))
  /\ gen' = [gen EXCEPT !.pending = Tail(gen.pending)]
  /\ UNCHANGED << inputVars, main_pc, idx, pf, mainVars, sink, probeVars, sh >>

\* ------------------------------------------------------------------------
\* Specification of the reader alone: every short stream, chunk size, window
\* ------------------------------------------------------------------------
Alphabet == { Ch.nl, Ch.a, Ch.eacute, Ch.grin, RawLead }

Texts(n) == UNION { [1..k -> Alphabet] : k \in 0..n }

\* file: the index of the input file these locals belong to (0: none yet).
PfInit == [pc |-> "scan", matched_records |-> << >>, lines_processed |-> 0,
           error_lines |-> 0, file |-> 0]

TotalsInit == [processed |-> 0, lines |-> 0, matched |-> 0, errors |-> 0]

NoFile == [exists |-> FALSE, rows |-> << >>]

\* generate_output_path: the base name of the input file without the
\* extension, in the output directory.
generate_output_path(f) == [dir |-> "out", name |-> f.base, ext |-> "csv"]

OutPaths == { generate_output_path(files[i]) : i \in 1..Len(files) }

NoProbe == [line |-> << >>]
NoVerdict == [py |-> "none", jq |-> "none"]

\* process_file_shell before the call: no temporary directory, no tuple.
NoTuple == [lines |-> 0, matched |-> 0, errors |-> 0, path |-> "none"]
ShInit(chunk_size) ==
  [pc |-> "idle", chunk_size |-> chunk_size, temp_exists |-> FALSE, chunks |-> << >>,
   lines_processed |-> 0, error_lines |-> 0, all_records |-> << >>,
   ret |-> NoTuple, rm_failed |-> FALSE]

InitDecode ==
  /\ cfg \in [chunk_size : 1..MaxChunk, max_window : 1..MaxWindow,
            progress_log_interval : { 1 }]
  /\ args = [value |-> << >>, regex |-> FALSE]
  /\ \E t \in Texts(MaxChars) :
       files = << [dir |-> "in", base |-> "RC_1", text |-> t, data |-> EncodeText(t)] >>
  /\ main_pc = "in_file"
  /\ idx = 1
  /\ gen = GenInit
  /\ yielded = << >>
  /\ pf = [PfInit EXCEPT !.file = 1]
  /\ values = { }
  /\ totals = TotalsInit
  /\ results = << >>
  /\ sink = [p \in OutPaths |-> NoFile]
  /\ run = 1
  /\ probe = NoProbe
  /\ verdict = NoVerdict
  /\ sh = ShInit(1)

NextDecode == ReadChunk \/ CollectLine

SpecDecode == InitDecode /\ [][NextDecode]_vars

\* ------------------------------------------------------------------------
\* Reference semantics of a text, computed on the characters
\* ------------------------------------------------------------------------
IsValidText(t) == \A i \in 1..Len(t) : t[i] >= 0

\* The newline-terminated lines of a text, without the unterminated tail.
RECURSIVE LinesOf(_)
LinesOf(t) ==
  IF \A i \in 1..Len(t) : t[i] # Ch.nl THEN << >>
  ELSE LET k == CHOOSE i \in 1..Len(t) :
                  t[i] = Ch.nl /\ \A j \in 1..(i - 1) : t[j] # Ch.nl
       IN << SubSeq(t, 1, k - 1) >> \o LinesOf(SubSeq(t, k + 1, Len(t)))

NewlineTerminated(t) == t = << >> \/ t[Len(t)] = Ch.nl

IsPrefix(p, q) == Len(p) <= Len(q) /\ SubSeq(q, 1, Len(p)) = p

CurText == files[pf.file].text

GenStopped == gen.st \in {"eof", "raised"}

\* ------------------------------------------------------------------------
\* C1 (as stated): for every valid UTF-8 text of newline-terminated lines and
\* every chunk size, yield_lines ends normally having yielded exactly the
\* lines of the text.
C1_AsStated ==
  (pf.file >= 1 /\ IsValidText(CurText) /\ NewlineTerminated(CurText) /\ GenStopped)
    => (gen.st = "eof" /\ yielded = LinesOf(CurText))

\* C1 (amended): on a valid text of newline-terminated lines the lines
\* yielded are at every moment a prefix of the original lines (none lost,
\* split, merged or duplicated), they are all of them when the generator
\* ends, and it ends normally whenever max_window_size is at least the byte
\* length of the text; only with a smaller window can it raise.
C1_RoundTrip ==
  (pf.file >= 1 /\ IsValidText(CurText) /\ NewlineTerminated(CurText))
    => /\ IsPrefix(yielded, LinesOf(CurText))
       /\ (gen.st = "eof" => yielded = LinesOf(CurText))
       /\ (gen.st = "raised" => cfg.max_window < Len(CurData))

\* C1 witness: a text with a 4-byte character read one byte at a time (every
\* boundary inside the character is hit) came out as its two lines.
C1_Witness ==
  /\ IsValidText(CurText) /\ NewlineTerminated(CurText)
  /\ \E i \in 1..Len(CurText) : CurText[i] = Ch.grin
  /\ cfg.chunk_size = 1
  /\ gen.st = "eof"
  /\ Len(yielded) = 2
  /\ yielded = LinesOf(CurText)

\* ------------------------------------------------------------------------
\* C2: a call of read_and_decode that had to retry a split character and
\* consumed more than max_window_size bytes before its chunk decoded has
\* failed with the decode-window error: no chunk is returned once the
\* running counter (and the bytes really consumed) is above the window.
C2_WindowNeverExceeded ==
  (gen.bytes_read > cfg.chunk_size /\ gen.pos - gen.call_pos > cfg.max_window)
    => gen.st = "raised"

\* ------------------------------------------------------------------------
\* process_file_python
\* ------------------------------------------------------------------------
CurOut == generate_output_path(files[pf.file])

\* The tuple returned by process_file_python; cause records which return
\* statement produced it.
ResultTuple(matched, cause) ==
  [file |-> pf.file, lines |-> pf.lines_processed, matched |-> matched,
   errors |-> pf.error_lines, cause |-> cause]

\* Lines 73-75 with the exception let through to the caller.
ReturnOnExceptionReraise(cause) ==
  /\ pf' = [pf EXCEPT !.pc = "raised"]
  /\ main_pc' = "crashed"
  /\ UNCHANGED results

\* Lines 73-75 returning the number of matches collected so far.
ReturnOnExceptionKeepMatches(cause) ==
  /\ pf' = [pf EXCEPT !.pc = "returned"]
  /\ results' = Append(results, ResultTuple(Len(pf.matched_records), cause))
  /\ UNCHANGED main_pc

\* Lines 73-75 (and 100-102): log the error, return zero matches.
ReturnOnException(cause) ==
  /\ pf' = [pf EXCEPT !.pc = "returned"]
  /\ results' = Append(results, ResultTuple(0, cause))
  /\ UNCHANGED main_pc

\* Lines 43-64 for a line whose exception, if any, is caught at line 61.
\* The loop body with insert(0, obj) in place of append(obj).
LoopBodyPrepend(c) ==
  [pf EXCEPT !.lines_processed = @ + 1,
             !.error_lines = IF c.out = "error" THEN @ + 1 ELSE @,
             !.matched_records = IF c.out = "matched" THEN << c.obj >> \o @ ELSE @]

LoopBody(c) ==
  [pf EXCEPT !.lines_processed = @ + 1,
             !.error_lines = IF c.out = "error" THEN @ + 1 ELSE @,
             !.matched_records = IF c.out = "matched" THEN Append(@, c.obj) ELSE @]

\* One pass of the for loop over the next line the generator yields, up to
\* the progress log of line 66, whose Config.get is outside the inner try.
ProcessLine ==
  /\ main_pc = "in_file"
  /\ pf.pc = "scan"
  /\ gen.st = "active"
  /\ gen.pending # << >>
  /\ \E line \in { Head(gen.pending) } :
     \E c \in { ClassifyLine(line, values, args.regex) } :
        /\ yielded' = Append(yielded, line)
        /\ gen' = [gen EXCEPT !.pending = Tail(gen.pending)]
        /\ IF c.out = "abort"
             THEN ReturnOnException("line_exception")
           ELSE IF Config_get("progress_log_interval").exc # "none"
             THEN /\ pf' = [LoopBody(c) EXCEPT !.pc = "returned"]
                  /\ results' = Append(results,
                        [file |-> pf.file, lines |-> LoopBody(c).lines_processed,
                         matched |-> 0, errors |-> LoopBody(c).error_lines,
                         cause |-> "config_error"])
                  /\ UNCHANGED main_pc
           ELSE pf' = LoopBody(c) /\ UNCHANGED << results, main_pc >>
  /\ UNCHANGED << inputVars, idx, values, totals, run, sink, probeVars, sh >>

\* The exception raised inside the generator (the UnicodeError of
\* read_and_decode, the KeyError of Config.get) reaches the except of line 73.
HandleDecodeError ==
  /\ main_pc = "in_file"
  /\ pf.pc = "scan"
  /\ gen.st \in { "raised", "keyerror" }
  /\ ReturnOnException(IF gen.st = "raised" THEN "decode_error" ELSE "config_error")
  /\ UNCHANGED << inputVars, idx, gen, yielded, values, totals, run, sink, probeVars, sh >>

\* The end of the loop going to the write whether or not anything matched.
EndOfLinesAlwaysWrite ==
  /\ main_pc = "in_file"
  /\ pf.pc = "scan"
  /\ gen.st = "eof"
  /\ pf' = [pf EXCEPT !.pc = "write"]
  /\ UNCHANGED << inputVars, main_pc, idx, gen, yielded, mainVars, sink, probeVars, sh >>

\* The generator is exhausted: lines 77 and 103-108.
EndOfLines ==
  /\ main_pc = "in_file"
  /\ pf.pc = "scan"
  /\ gen.st = "eof"
  /\ IF pf.matched_records = << >>
       THEN /\ pf' = [pf EXCEPT !.pc = "returned"]
            /\ results' = Append(results, ResultTuple(0, "no_match"))
     ELSE /\ pf' = [pf EXCEPT !.pc = "write"]
          /\ UNCHANGED results
  /\ UNCHANGED << inputVars, main_pc, idx, gen, yielded, values, totals, run, sink,
                  probeVars, sh >>

\* df.to_csv / df.to_parquet open output_path itself and write into it.
WriteOpen ==
  /\ main_pc = "in_file"
  /\ pf.pc = "write"
  /\ sink' = [sink EXCEPT ![CurOut] = [exists |-> TRUE, rows |-> << >>]]
  /\ pf' = [pf EXCEPT !.pc = "writing"]
  /\ UNCHANGED << inputVars, main_pc, idx, gen, yielded, mainVars, probeVars, sh >>

WriteRow ==
  /\ main_pc = "in_file"
  /\ pf.pc = "writing"
  /\ Len(sink[CurOut].rows) < Len(pf.matched_records)
  /\ sink' = [sink EXCEPT ![CurOut].rows =
                Append(@, pf.matched_records[Len(@) + 1])]
  /\ UNCHANGED << inputVars, main_pc, idx, gen, yielded, pf, mainVars, probeVars, sh >>

\* The write returned: lines 97-99 and 108.
WriteDone ==
  /\ main_pc = "in_file"
  /\ pf.pc = "writing"
  /\ Len(sink[CurOut].rows) = Len(pf.matched_records)
  /\ pf' = [pf EXCEPT !.pc = "returned"]
  /\ results' = Append(results, ResultTuple(Len(pf.matched_records), "written"))
  /\ UNCHANGED << inputVars, main_pc, idx, gen, yielded, values, totals, run, sink,
                  probeVars, sh >>

\* The sink raised (DataFrame construction, open, a write): lines 100-102.
\* What is already on disk stays there.
WriteFail ==
  /\ main_pc = "in_file"
  /\ pf.pc \in {"write", "writing"}
  /\ ReturnOnException("write_error")
  /\ UNCHANGED << inputVars, idx, gen, yielded, values, totals, run, sink, probeVars, sh >>

\* ------------------------------------------------------------------------
\* main
\* ------------------------------------------------------------------------
\* Lines 112-147: criterion, enumeration of the input files, zeroed totals.
Startup ==
  /\ main_pc = "start"
  /\ \E order \in Orders(RawValues(args.value)) :
       LET r == load_filter_values(args.value, args.regex, order)
       IN IF r.exit \/ Len(files) = 0
            THEN main_pc' = "exit1" /\ UNCHANGED << values, idx >>
          ELSE main_pc' = "loop" /\ values' = r.values /\ idx' = 1
  /\ totals' = TotalsInit
  /\ results' = << >>
  /\ UNCHANGED << inputVars, gen, yielded, pf, run, sink, probeVars, sh >>

\* Lines 150-153: the next input file is handed to process_file_python.
StartFile ==
  /\ main_pc = "loop"
  /\ idx <= Len(files)
  /\ main_pc' = "in_file"
  /\ gen' = GenInit
  /\ yielded' = << >>
  /\ pf' = [PfInit EXCEPT !.file = idx]
  /\ UNCHANGED << inputVars, idx, mainVars, sink, probeVars, sh >>

\* The loop of main handing a file whose result reports a failure to
\* process_file_python again.
FileReturnRetry ==
  /\ main_pc = "in_file"
  /\ pf.pc = "returned"
  /\ LET r == Last(results)
     IN /\ totals' = [processed |-> totals.processed + 1,
                      lines |-> totals.lines + r.lines,
                      matched |-> totals.matched + r.matched,
                      errors |-> totals.errors + r.errors]
        /\ idx' = IF r.cause \in { "decode_error", "write_error" } /\ Len(results) < 3
                    THEN idx ELSE idx + 1
  /\ main_pc' = "loop"
  /\ UNCHANGED << inputVars, gen, yielded, pf, values, results, run, sink, probeVars, sh >>

\* Lines 153-175: the tuple is unpacked and added to the totals.
\* The loop of main counting a failed file as processed without adding its
\* lines and errors to the totals.
FileReturnDropFailed ==
  /\ main_pc = "in_file"
  /\ pf.pc = "returned"
  /\ LET r == Last(results)
     IN totals' = IF r.cause \in { "written", "no_matches" }
                    THEN [processed |-> totals.processed + 1,
                          lines |-> totals.lines + r.lines,
                          matched |-> totals.matched + r.matched,
                          errors |-> totals.errors + r.errors]
                  ELSE [totals EXCEPT !.processed = @ + 1]
  /\ idx' = idx + 1
  /\ main_pc' = "loop"
  /\ UNCHANGED << inputVars, gen, yielded, pf, values, results, run, sink, probeVars, sh >>

FileReturn ==
  /\ main_pc = "in_file"
  /\ pf.pc = "returned"
  /\ LET r == Last(results)
     IN totals' = [processed |-> totals.processed + 1,
                   lines |-> totals.lines + r.lines,
                   matched |-> totals.matched + r.matched,
                   errors |-> totals.errors + r.errors]
  /\ idx' = idx + 1
  /\ main_pc' = "loop"
  /\ UNCHANGED << inputVars, gen, yielded, pf, values, results, run, sink, probeVars, sh >>

\* Lines 184-209: the loop is over, the summary is logged.
Summary ==
  /\ main_pc = "loop"
  /\ idx > Len(files)
  /\ main_pc' = "summary"
  /\ UNCHANGED << inputVars, idx, gen, yielded, pf, mainVars, sink, probeVars, sh >>

\* KeyboardInterrupt is raised anywhere inside the try block of lines
\* 149-175. No except Exception on the way (lines 61, 73, 100) catches it:
\* it leaves process_file_python and the for loop.
Interrupt ==
  /\ main_pc \in {"loop", "in_file"}
  /\ main_pc' = "sigint"
  /\ UNCHANGED << inputVars, idx, gen, yielded, pf, mainVars, sink, probeVars, sh >>

\* A handler that logs the interrupt and goes on with the next file.
InterruptResume ==
  /\ main_pc = "sigint"
  /\ main_pc' = "loop"
  /\ idx' = idx + 1
  /\ UNCHANGED << inputVars, gen, yielded, pf, mainVars, sink, probeVars, sh >>

\* Lines 177-179: except KeyboardInterrupt logs and calls sys.exit(1).
InterruptExit ==
  /\ main_pc = "sigint"
  /\ main_pc' = "interrupted"
  /\ UNCHANGED << inputVars, idx, gen, yielded, pf, mainVars, sink, probeVars, sh >>

\* The same command is run again over the same input tree and output directory.
Rerun ==
  /\ main_pc = "summary"
  /\ run < MaxRuns
  /\ run' = run + 1
  /\ main_pc' = "start"
  /\ idx' = 1
  /\ gen' = GenInit
  /\ yielded' = << >>
  /\ pf' = PfInit
  /\ values' = { }
  /\ totals' = TotalsInit
  /\ results' = << >>
  /\ UNCHANGED << inputVars, sink, probeVars, sh >>

ExitCode == IF main_pc = "summary" THEN 0 ELSE 1

\* ------------------------------------------------------------------------
\* Dump files of the model
\* ------------------------------------------------------------------------
Quoted(str) == << Ch.quote >> \o str \o << Ch.quote >>
ObjLine(key, jsonValue) ==
  << Ch.lbrace >> \o Quoted(key) \o << Ch.colon >> \o jsonValue \o << Ch.rbrace >>

LineMatch == ObjLine(Field, Quoted(<< 65, 98 >>))         \* {"s":"Ab"}
LineOther == ObjLine(Field, Quoted(<< 120 >>))            \* {"s":"x"}
LineAccent == ObjLine(Field, Quoted(<< 201 >>))           \* {"s":"E-acute"}
LineGarbage == << 120 >>                                  \* x
LineEmpty == << >>
LineList == << Ch.lbrack, 49, Ch.rbrack >>                \* [1]
LineNoField == ObjLine(<< 116 >>, Quoted(<< 97, 98 >>))   \* {"t":"ab"}
LineNonStr == ObjLine(Field, << 49 >>)                    \* {"s":1}
LineInvalid == << 120, RawLead >>                         \* x and a byte that is not UTF-8

LinePool == { LineMatch, LineOther, LineAccent, LineGarbage, LineEmpty, LineList,
              LineNoField, LineNonStr, LineInvalid }

RECURSIVE JoinLines(_)
JoinLines(ls) ==
  IF ls = << >> THEN << >> ELSE Head(ls) \o << Ch.nl >> \o JoinLines(Tail(ls))

\* Every file of up to MaxLines lines, with or without an unterminated tail.
FileTexts ==
  { JoinLines(ls) \o tail :
      ls \in UNION { [1..k -> LinePool] : k \in 0..MaxLines },
      tail \in { << >>, LineMatch, LineGarbage } }

InputFile(base, t) == [dir |-> "in", base |-> base, text |-> t, data |-> EncodeText(t)]

ArgAb == << 65, 98 >>                     \* --value Ab
ArgAbX == << 97, 98, Ch.comma, 88 >>      \* --value ab,X

InitCommon ==
  /\ main_pc = "start"
  /\ idx = 1
  /\ gen = GenInit
  /\ yielded = << >>
  /\ pf = PfInit
  /\ values = { }
  /\ totals = TotalsInit
  /\ results = << >>
  /\ sink = [p \in OutPaths |-> NoFile]
  /\ run = 1
  /\ probe = NoProbe
  /\ verdict = NoVerdict
  /\ sh = ShInit(1)

\* One file, every content.
InitFile ==
  /\ cfg \in { FullConfig(SmallChunk, SmallWindow),
               FullConfig(BigChunk, BigChunk) }
  /\ args \in { [value |-> ArgAb, regex |-> FALSE], [value |-> ArgAbX, regex |-> FALSE] }
  /\ \E t \in FileTexts : files = << InputFile("RC_1", t) >>
  /\ InitCommon

NextFile ==
  \/ Startup \/ StartFile \/ ReadChunk \/ ProcessLine \/ HandleDecodeError
  \/ EndOfLines \/ WriteOpen \/ WriteRow \/ WriteDone \/ WriteFail
  \/ FileReturn \/ Summary \/ Interrupt \/ InterruptExit

SpecFile == InitFile /\ [][NextFile]_vars

\* ------------------------------------------------------------------------
\* Reference classification of a line, from the meaning of the criterion
\* ------------------------------------------------------------------------
\* A usable record: a JSON object whose filtered field is a string.
Usable(line) ==
  LET p == json_loads(line)
  IN /\ p.ok
     /\ p.val.t = "dict"
     /\ \E k \in 1..Len(p.val.v) : p.val.v[k].key = Field
     /\ Subscript(p.val, Field).val.t = "str"

FieldValue(line) == Subscript(json_loads(line).val, Field).val.v

ConfiguredLower == { Lower(v) : v \in RawValues(args.value) }

RefMatches(line) == Usable(line) /\ Lower(FieldValue(line)) \in ConfiguredLower

CountIn(q, P(_)) == Cardinality({ i \in 1..Len(q) : P(q[i]) })

Unusable(line) == ~Usable(line)

LastResult == Last(results)
Returned(cause) == pf.pc = "returned" /\ results # << >> /\ LastResult.cause = cause

\* ------------------------------------------------------------------------
\* C3: every line that is not a usable record is counted as scanned and as
\* exactly one error, and the scan goes on: no line ends the file, so the
\* counters always account for every line taken from the generator.
C3_BadLinesCounted ==
  pf.file >= 1 =>
    /\ ~Returned("line_exception")
    /\ (pf.pc = "scan" =>
          /\ pf.lines_processed = Len(yielded)
          /\ pf.error_lines = CountIn(yielded, Unusable))

\* ------------------------------------------------------------------------
\* C5: after a decode failure the result carries the lines and errors
\* counted before the failure and zero matches, nothing more is scanned and
\* no output file exists for the input.
C5_DecodeFailureResult ==
  Returned("decode_error") =>
    /\ LastResult.matched = 0
    /\ LastResult.lines = Len(yielded)
    /\ LastResult.errors = CountIn(yielded, Unusable)
    /\ pf.lines_processed = Len(yielded)
    /\ ~sink[CurOut].exists

\* C5 witness: the decode failure came after a match had been collected.
C5_Witness ==
  /\ Returned("decode_error")
  /\ Len(pf.matched_records) >= 1
  /\ LastResult.lines >= 1

\* ------------------------------------------------------------------------
\* C6: once the processing of a file has ended (returned or interrupted) its
\* output file does not exist or holds all matched records of the file.
C6_NoPartialOutput ==
  (pf.file >= 1 /\ (pf.pc = "returned" \/ main_pc = "interrupted"))
    => (~sink[CurOut].exists \/ sink[CurOut].rows = pf.matched_records)

\* ------------------------------------------------------------------------
\* C10: for a valid text that does not end with a newline, the unterminated
\* tail is never yielded, counted or matched (what is yielded, scanned,
\* counted as error or matched stays within the newline-terminated lines),
\* and a scan that reaches the end of the stream has yielded and counted
\* every newline-terminated line.
C10_TailDropped ==
  (pf.file >= 1 /\ IsValidText(CurText) /\ ~NewlineTerminated(CurText))
    => /\ IsPrefix(yielded, LinesOf(CurText))
       /\ pf.lines_processed <= Len(LinesOf(CurText))
       /\ pf.error_lines <= CountIn(LinesOf(CurText), Unusable)
       /\ Len(pf.matched_records) <= CountIn(LinesOf(CurText), RefMatches)
       /\ (gen.st = "eof" =>
             /\ yielded = LinesOf(CurText)
             /\ pf.lines_processed = Len(LinesOf(CurText))
             /\ Len(pf.matched_records) = CountIn(LinesOf(CurText), RefMatches))

\* C10 witness: the tail is a matching record, the file ended normally after
\* its only complete line and nothing matched.
C10_Witness ==
  /\ pf.file >= 1
  /\ ~NewlineTerminated(CurText)
  /\ RefMatches(Last(Split(CurText)))
  /\ Returned("no_match")
  /\ LastResult.lines = 1
  /\ LastResult.matched = 0

\* ------------------------------------------------------------------------
\* The shell pipeline's filter: build_jq_filter and jq
\* ------------------------------------------------------------------------
RECURSIVE JoinWith(_, _)
JoinWith(q, sep) ==
  IF q = << >> THEN << >>
  ELSE IF Len(q) = 1 THEN q[1]
  ELSE q[1] \o << sep >> \o JoinWith(Tail(q), sep)

\* The jq program as its syntax tree: select(.field | test("p1|p2")),
\* select(.field == "value") or select(.field | IN("v1", "v2")).
build_jq_filter(field, vals, regex) ==
  IF regex
    THEN [kind |-> "test", field |-> field,
          arg |-> JoinWith([i \in 1..Len(vals) |-> vals[i].pattern], 124),
          set |-> { }]
  ELSE IF Cardinality(vals) = 1
    THEN [kind |-> "eq", field |-> field, arg |-> PyMin(vals), set |-> { }]
  ELSE [kind |-> "IN", field |-> field, arg |-> << >>, set |-> vals]

\* jq -c <filter> on one input line: "selected" (the record is printed),
\* "dropped", or "error" (jq reports an error for the input).
jq_eval(filter, line) ==
  LET p == json_loads(line)
      f == Subscript(p.val, filter.field)
  IN IF ~p.ok THEN "error"
     ELSE IF p.val.t \notin {"dict", "NoneType"} THEN "error"
     ELSE IF f.exc # "none" \/ f.val.t # "str"
       THEN IF filter.kind = "test" THEN "error" ELSE "dropped"
     ELSE IF filter.kind = "eq"
       THEN IF f.val.v = filter.arg THEN "selected" ELSE "dropped"
     ELSE IF filter.kind = "IN"
       THEN IF f.val.v \in filter.set THEN "selected" ELSE "dropped"
     ELSE IF \E alt \in Range(SplitOn(filter.arg, 124)) :
               re_search(re_compile(alt), f.val.v)
       THEN "selected"
     ELSE "dropped"

\* ------------------------------------------------------------------------
\* Specification of the filter alone: one criterion, one line, both pipelines
\* ------------------------------------------------------------------------
Letters == { 97, 65, 98, 66 }     \* a A b B

Words(n) == UNION { [1..k -> Letters] : k \in 0..n }

FilterLines ==
  { ObjLine(Field, Quoted(w)) : w \in Words(MaxWord) }
    \cup { LineGarbage, LineEmpty, LineList, LineNoField, LineNonStr }

FilterArgs ==
  { [value |-> v, regex |-> FALSE] :
      v \in { << >>, << 97, 98 >>, << 65, 98 >>, << 97, Ch.comma, 65, 98 >>,
              << 32, 66, 32, Ch.comma, Ch.comma, 97 >>, << 98, Ch.comma, 66 >> } }
    \cup
  { [value |-> v, regex |-> TRUE] :
      v \in { << 94, 97 >>, << 98, 36, Ch.comma, 94, 97 >>, << 97, 98 >>, << 40 >> } }

InitFilter ==
  /\ cfg = FullConfig(BigChunk, BigChunk)
  /\ args \in FilterArgs
  /\ files = << >>
  /\ main_pc = "start"
  /\ idx = 1
  /\ gen = GenInit
  /\ yielded = << >>
  /\ pf = PfInit
  /\ values = { }
  /\ totals = TotalsInit
  /\ results = << >>
  /\ sink = [p \in OutPaths |-> NoFile]
  /\ run = 1
  /\ probe \in [line : FilterLines]
  /\ verdict = NoVerdict
  /\ sh = ShInit(1)

\* load_filter_values at startup.
LoadCriterion ==
  /\ main_pc = "start"
  /\ \E order \in Orders(RawValues(args.value)) :
       LET r == load_filter_values(args.value, args.regex, order)
       IN IF r.exit THEN main_pc' = "exit1" /\ UNCHANGED values
          ELSE main_pc' = "probe" /\ values' = r.values
  /\ UNCHANGED << inputVars, idx, gen, yielded, pf, totals, results, run, sink,
                  probeVars, sh >>

\* The loop body of process_file_python on the line.
ApplyPython ==
  /\ main_pc = "probe"
  /\ verdict.py = "none"
  /\ verdict' = [verdict EXCEPT !.py = ClassifyLine(probe.line, values, args.regex).out]
  /\ UNCHANGED << inputVars, main_pc, idx, gen, yielded, pf, mainVars, sink, probe, sh >>

\* The jq filter of process_file_shell on the line.
ApplyJq ==
  /\ main_pc = "probe"
  /\ verdict.jq = "none"
  /\ verdict' = [verdict EXCEPT
                   !.jq = jq_eval(build_jq_filter(Field, values, args.regex), probe.line)]
  /\ UNCHANGED << inputVars, main_pc, idx, gen, yielded, pf, mainVars, sink, probe, sh >>

NextFilter == LoadCriterion \/ ApplyPython \/ ApplyJq

SpecFilter == InitFilter /\ [][NextFilter]_vars

\* ------------------------------------------------------------------------
\* C4: in exact mode a record is matched iff its lower-cased field value is
\* in the lower-cased configured value set, whatever the size of the set;
\* with one value the direct comparison decides as membership does.
C4_ExactIsMembership ==
  (~args.regex /\ verdict.py # "none") =>
    /\ (verdict.py = "matched") = RefMatches(probe.line)
    /\ (Usable(probe.line) =>
          ExactMatch(values, Lower(FieldValue(probe.line)))
            = (Lower(FieldValue(probe.line)) \in ConfiguredLower))

\* C4 witness: one configured value, and a field value that differs from it
\* only in letter case was matched through the fast path.
C4_Witness ==
  /\ ~args.regex
  /\ verdict.py = "matched"
  /\ Cardinality(values) = 1
  /\ FieldValue(probe.line) \notin RawValues(args.value)
  /\ FieldValue(probe.line) # Lower(FieldValue(probe.line))

\* ------------------------------------------------------------------------
\* C9: the jq filter of the shell pipeline selects a record exactly when
\* process_file_python matches it, in every mode.
C9_PipelinesAgree ==
  (verdict.py # "none" /\ verdict.jq # "none") =>
    ((verdict.py = "matched") = (verdict.jq = "selected"))

\* ------------------------------------------------------------------------
\* Specification of a whole run: several files, failures, repeated invocation
\* ------------------------------------------------------------------------
RunTexts ==
  { JoinLines(<< LineMatch, LineOther >>),
    JoinLines(<< LineOther >>),
    JoinLines(<< LineMatch, LineInvalid >>),
    JoinLines(<< LineGarbage, LineMatch >>) }

BaseName(i) == IF i = 1 THEN "RC_1" ELSE IF i = 2 THEN "RC_2" ELSE "RC_3"

InitRun ==
  /\ cfg = FullConfig(SmallChunk, SmallWindow)
  /\ args = [value |-> ArgAb, regex |-> FALSE]
  /\ \E n \in 1..MaxFiles : \E ts \in [1..n -> RunTexts] :
       files = [i \in 1..n |-> InputFile(BaseName(i), ts[i])]
  /\ InitCommon

NextRun == NextFile \/ Rerun

SpecRun == InitRun /\ [][NextRun]_vars

\* The run when nobody interrupts it: main is a sequential program, so the
\* step it is at is eventually taken.
NextLive ==
  \/ Startup \/ StartFile \/ ReadChunk \/ ProcessLine \/ HandleDecodeError
  \/ EndOfLines \/ WriteOpen \/ WriteRow \/ WriteDone \/ WriteFail
  \/ FileReturn \/ Summary

SpecRunFair == InitRun /\ [][NextLive]_vars /\ WF_vars(NextLive)

\* ------------------------------------------------------------------------
\* C7: an uninterrupted run eventually reaches the summary with every file
\* of the enumeration accounted for, whichever files failed on the way.
C7_RunReachesSummary ==
  <>(main_pc = "summary" /\ totals.processed = Len(files)
       /\ Len(results) = Len(files))

\* C7 witness: the summary was reached although the first of several files
\* failed with a decode-window error or a sink-write error.
C7_Witness ==
  /\ main_pc = "summary"
  /\ Len(results) >= 2
  /\ results[1].cause \in {"decode_error", "write_error"}
  /\ totals.processed = Len(files)

\* ------------------------------------------------------------------------
\* C8: a second run over the same file set processes no file: nothing is
\* scanned and no file is added to the totals.
C8_SecondRunIdle ==
  run >= 2 => (pf.file = 0 /\ totals.processed = 0)

\* ------------------------------------------------------------------------
\* Reference values of a result tuple, from the text of its file
\* ------------------------------------------------------------------------
FileLines(i) == LinesOf(files[i].text)

\* Sum over the first n result tuples of the matches main adds for each.
RECURSIVE SumMatched(_)
SumMatched(n) == IF n = 0 THEN 0 ELSE SumMatched(n - 1) + results[n].matched

\* Matches of the files that were written, among the first n result tuples.
RECURSIVE SumWritten(_)
SumWritten(n) ==
  IF n = 0 THEN 0
  ELSE SumWritten(n - 1)
       + (IF results[n].cause = "written"
            THEN CountIn(FileLines(results[n].file), RefMatches) ELSE 0)

\* ------------------------------------------------------------------------
\* C11: a file whose sink write failed is reported with 0 matches and with
\* the lines and errors of its complete scan, and main's total of matched
\* records is the sum over the written files only.
C11_WriteFailureResult ==
  /\ \A i \in 1..Len(results) :
       results[i].cause = "write_error" =>
         /\ results[i].matched = 0
         /\ results[i].lines = Len(FileLines(results[i].file))
         /\ results[i].errors = CountIn(FileLines(results[i].file), Unusable)
         /\ CountIn(FileLines(results[i].file), RefMatches) >= 1
  /\ totals.processed <= Len(results)
  /\ totals.matched = SumWritten(totals.processed)

\* C11 witness: a file with a match and an error line failed in the write
\* and has been added to the totals, which hold no match of it.
C11_Witness ==
  \E i \in 1..Len(results) :
    /\ i <= totals.processed
    /\ results[i].cause = "write_error"
    /\ results[i].errors >= 1
    /\ results[i].lines >= 2
    /\ totals.matched = 0

\* ------------------------------------------------------------------------
\* Specification of the startup: the input tree, the criterion, then the run
\* ------------------------------------------------------------------------
\* file_pattern.search(file_name) for the default --file_filter "^RC_|^RS_".
PatternFinds(base) == base \in { "RC_1", "RC_2", "RC_3" }

OtherName(i) == IF i = 1 THEN "notes_1" ELSE IF i = 2 THEN "notes_2" ELSE "notes_3"

\* collect_input_files over the directory entries in os.walk order: the
\* entries with the configured extension whose name the pattern finds.
collect_input_files(tree) ==
  LET kept == SelectSeq(tree, LAMBDA e : e.ext = "zst" /\ PatternFinds(e.base))
  IN [i \in 1..Len(kept) |-> InputFile(kept[i].base, kept[i].text)]

StartTexts ==
  { JoinLines(<< LineMatch, LineInvalid >>), JoinLines(<< LineGarbage, LineMatch >>) }

Trees ==
  UNION { { tree \in [1..n -> [base : { BaseName(k) : k \in 1..n }
                                        \cup { OtherName(k) : k \in 1..n },
                               ext : { "zst", "txt" },
                               text : StartTexts]] :
              \A k \in 1..n : tree[k].base \in { BaseName(k), OtherName(k) } }
          : n \in 0..MaxFiles }

StartArgs ==
  { [value |-> ArgAb, regex |-> FALSE],
    [value |-> << Ch.comma, Ch.space >>, regex |-> FALSE],
    [value |-> << 94, 97 >>, regex |-> TRUE],
    [value |-> << 40 >>, regex |-> TRUE],
    [value |-> << 94, 97, Ch.comma, 40 >>, regex |-> TRUE] }

InitStart ==
  /\ cfg = FullConfig(SmallChunk, SmallWindow)
  /\ args \in StartArgs
  /\ \E tree \in Trees : files = collect_input_files(tree)
  /\ InitCommon

SpecStart == InitStart /\ [][NextRun]_vars

\* The run cannot start: a configured pattern does not compile, or no file
\* was enumerated.
StartupFails ==
  \/ args.regex /\ \E v \in RawValues(args.value) : ~re_compile(v).ok
  \/ files = << >>

\* ------------------------------------------------------------------------
\* C12: when the startup fails the run ends with exit code 1 before any
\* file is processed: main never enters the loop, no file is scanned, no
\* result is produced and no output file exists; and a run exits this way
\* only on a startup failure.
C12_StartupFailure ==
  /\ StartupFails =>
       /\ main_pc \in { "start", "exit1" }
       /\ pf.file = 0
       /\ results = << >>
       /\ \A p \in OutPaths : ~sink[p].exists
  /\ main_pc = "exit1" => (StartupFails /\ ExitCode = 1)

\* C12 witness: the run exited on a pattern that does not compile although
\* input files had been found.
C12_Witness ==
  /\ main_pc = "exit1"
  /\ args.regex
  /\ Len(files) >= 1

\* ------------------------------------------------------------------------
\* C13: once the interrupt has been raised the only step left is the exit
\* with code 1: no further file is started, nothing more is scanned,
\* returned, added to the totals or written.
AfterInterrupt ==
  main_pc \in { "sigint", "interrupted" } =>
    (main_pc' = "interrupted" /\ UNCHANGED << idx, gen, yielded, pf, totals, results, sink >>)

C13_InterruptStops ==
  [][AfterInterrupt]_vars /\ [](main_pc = "interrupted" => ExitCode = 1)

\* C13 witness: the run was interrupted inside a file while a later file had
\* not been started, and has exited.
C13_Witness ==
  /\ main_pc = "interrupted"
  /\ pf.file >= 1
  /\ pf.pc # "returned"
  /\ idx < Len(files)

\* ------------------------------------------------------------------------
\* C14: a file that returned without decode or write failure has scanned
\* every newline-terminated line of its text, and each of them is counted
\* once: as matched, as an error, or (the rest) as not matched.
C14_Accounting ==
  (pf.file >= 1 /\ pf.pc = "returned"
     /\ LastResult.cause \notin { "decode_error", "write_error" })
    => /\ LastResult.lines = Len(LinesOf(CurText))
       /\ LastResult.matched = CountIn(LinesOf(CurText), RefMatches)
       /\ LastResult.errors = CountIn(LinesOf(CurText), Unusable)

\* ------------------------------------------------------------------------
\* C15: in regex mode a record is matched iff some configured pattern finds
\* a match in the lower-cased field value, in whatever order the compiled
\* patterns are listed.
C15_RegexIsAnyPattern ==
  (args.regex /\ verdict.py # "none") =>
    ((verdict.py = "matched")
       = (Usable(probe.line)
            /\ \E v \in RawValues(args.value) :
                 re_search(re_compile(v), Lower(FieldValue(probe.line)))))

\* C15 witness: two patterns, the record matched although the pattern tried
\* first did not find a match.
C15_Witness ==
  /\ args.regex
  /\ verdict.py = "matched"
  /\ Len(values) = 2
  /\ ~re_search(values[1], Lower(FieldValue(probe.line)))

\* ------------------------------------------------------------------------
\* C16: a record is matched iff some configured value is a substring of the
\* lower-cased field value.  parse_arguments defines no partial mode: plain
\* values (no --regex) are the only criterion that is not a pattern, and the
\* statement is checked on it.
IsSubstring(v, s) ==
  \E i \in 1..(Len(s) + 1) :
    i + Len(v) - 1 <= Len(s) /\ SubSeq(s, i, i + Len(v) - 1) = v

C16_SubstringMatches ==
  (~args.regex /\ verdict.py # "none") =>
    ((verdict.py = "matched")
       = (Usable(probe.line)
            /\ \E v \in ConfiguredLower : IsSubstring(v, Lower(FieldValue(probe.line)))))

\* ------------------------------------------------------------------------
\* C17 as stated: every file whose processing has ended, by a return or by
\* the interrupt, has its result tuple.
C17_AsStated ==
  (pf.file >= 1 /\ (pf.pc = "returned" \/ main_pc = "interrupted"))
    => (Len(results) = pf.file /\ results[pf.file].file = pf.file)

\* Files 1..pf.file are the files started in this run.  Each file that
\* returned has exactly one tuple, at its own position; the file in flight
\* has none yet.
OneTuplePerReturn ==
  /\ \A i \in 1..Len(results) : results[i].file = i
  /\ Len(results) = (IF pf.pc = "returned" THEN pf.file ELSE Max(pf.file - 1, 0))
  /\ pf.file <= Len(files)

\* The file started is always the one after the last started (or the run
\* starts over): never the same file again.
NextFileOnly ==
  pf.file' # pf.file => (pf.file' = pf.file + 1 \/ (pf.file' = 0 /\ run' = run + 1))

\* C17: every file whose processing returns (normally, after a decode
\* failure, after a line exception or after a write failure) has exactly
\* one result tuple, a file in flight when the run is interrupted has none,
\* and no file is started twice in a run.
C17_OneResultPerFile ==
  [](OneTuplePerReturn) /\ [][NextFileOnly]_vars

\* C17 witness: the first file failed and has its tuple, the second was
\* interrupted in flight and has none.
C17_Witness ==
  /\ main_pc = "interrupted"
  /\ pf.file = 2
  /\ pf.pc # "returned"
  /\ Len(results) = 1
  /\ results[1].cause \in { "decode_error", "write_error" }

\* ------------------------------------------------------------------------
\* Files being processed at this moment: main calls process_file_python
\* inside its for loop and waits for the tuple.
InFlight == IF main_pc = "in_file" /\ pf.pc # "returned" THEN 1 ELSE 0

\* C18: with a worker count of two or more and at least two files
\* enumerated, the free slot is used: at some moment two files are in
\* flight together.
C18_FreeSlotUsed ==
  Len(files) >= 2 => <>(InFlight >= 2)

\* ------------------------------------------------------------------------
\* C19: the byte count the decode-window error carries is the number of
\* bytes the failed call consumed from the decompressed stream.
C19_ErrorCountsConsumed ==
  gen.st = "raised" => gen.bytes_read = gen.pos - gen.call_pos

\* ------------------------------------------------------------------------
\* While a file is processed its output file exists only once the scan has
\* reached the end of the stream with every yielded line classified and at
\* least one record matched, and it holds a prefix of the matched records.
WrittenAfterScan ==
  (pf.file >= 1 /\ sink[CurOut].exists) =>
    /\ pf.pc \in { "writing", "returned" }
    /\ gen.st = "eof"
    /\ pf.lines_processed = Len(yielded)
    /\ Len(pf.matched_records) >= 1
    /\ IsPrefix(sink[CurOut].rows, pf.matched_records)

\* The output file is opened once: after it exists it is only extended.
OpenedOnce ==
  (pf.file >= 1 /\ pf.file' = pf.file /\ sink[CurOut].exists) =>
    (sink'[CurOut].exists /\ IsPrefix(sink[CurOut].rows, sink'[CurOut].rows))

\* C20: the sink is written at most once per file, only after the last line
\* has been classified and only if a record matched; a file without a match
\* and a file whose scan failed have no output file.
C20_WriteAfterScanOnly ==
  [](WrittenAfterScan) /\ [][OpenedOnce]_vars
     /\ []((pf.file >= 1 /\ pf.pc = "returned"
              /\ LastResult.cause \in { "no_match", "decode_error", "line_exception" })
             => ~sink[CurOut].exists)

\* C20 witness: a file with two matching records returned with both of them
\* in its output file.
C20_Witness ==
  /\ Returned("written")
  /\ Len(pf.matched_records) = 2
  /\ sink[CurOut].rows = pf.matched_records

\* ------------------------------------------------------------------------
\* C21: a run that gets past the startup has a criterion with at least one
\* value (exact mode) or pattern (regex mode).
C21_CriterionNotEmpty ==
  main_pc \notin { "start", "exit1" } =>
    (IF args.regex THEN Len(values) >= 1 ELSE values # { })

\* ------------------------------------------------------------------------
\* Specification of a run under a config.json that lacks a key
\* ------------------------------------------------------------------------
ProcessingKeys == { "chunk_size", "max_window", "progress_log_interval" }

Configs ==
  { FullConfig(SmallChunk, SmallWindow),
    [max_window |-> SmallWindow, progress_log_interval |-> 1],
    [chunk_size |-> SmallChunk, progress_log_interval |-> 1],
    [chunk_size |-> SmallChunk, max_window |-> SmallWindow] }

InitConfig ==
  /\ cfg \in Configs
  /\ args = [value |-> ArgAb, regex |-> FALSE]
  /\ \E n \in 1..MaxFiles : \E ts \in [1..n -> RunTexts] :
       files = [i \in 1..n |-> InputFile(BaseName(i), ts[i])]
  /\ InitCommon

SpecConfig == InitConfig /\ [][NextRun]_vars

\* C22: when a key read during file processing is absent the run aborts: no
\* file is recorded with a result tuple and the summary is never reached.
C22_AbsentKeyAborts ==
  (\E k \in ProcessingKeys : Config_get(k).exc # "none") =>
    (results = << >> /\ main_pc # "summary")

\* ------------------------------------------------------------------------
\* Specification of one file of two kinds of matching record, every chunk size
\* ------------------------------------------------------------------------
OrderTexts ==
  { JoinLines(ls) \o tail :
      ls \in UNION { [1..k -> { LineMatch, LineOther, LineInvalid }] : k \in 0..MaxLines },
      tail \in { << >>, LineMatch } }

InitOrder ==
  /\ cfg \in { FullConfig(c, SmallWindow) : c \in 1..SmallChunk }
  /\ args = [value |-> ArgAbX, regex |-> FALSE]
  /\ \E t \in OrderTexts : files = << InputFile("RC_1", t) >>
  /\ InitCommon

SpecOrder == InitOrder /\ [][NextFile]_vars

\* The records of the matching lines of a sequence of lines, in line order.
RECURSIVE MatchedObjs(_)
MatchedObjs(lines) ==
  IF lines = << >> THEN << >>
  ELSE (IF RefMatches(Head(lines)) THEN << json_loads(Head(lines)).val >> ELSE << >>)
       \o MatchedObjs(Tail(lines))

\* C23: the batch of matched records is, at every moment of the scan, the
\* records of the matching lines read so far in the order of their lines, and
\* the rows the sink receives are the records of the matching lines of the
\* file in line order, for every chunk size.
C23_OrderPreserved ==
  (pf.file >= 1 /\ (pf.pc \in { "scan", "writing" } \/ Returned("written")
                    \/ Returned("no_matches") \/ Returned("write_error"))) =>
    /\ pf.matched_records = MatchedObjs(yielded)
    /\ IsPrefix(yielded, FileLines(pf.file))
    /\ IsPrefix(sink[CurOut].rows, MatchedObjs(FileLines(pf.file)))
    /\ Returned("written") => sink[CurOut].rows = MatchedObjs(FileLines(pf.file))

\* Two different matching records were written by a reader whose chunk is
\* smaller than a line.
C23_Witness ==
  /\ Returned("written")
  /\ cfg.chunk_size = 1
  /\ Len(sink[CurOut].rows) = 2
  /\ sink[CurOut].rows[1] # sink[CurOut].rows[2]

\* ------------------------------------------------------------------------
\* The reader alone, with a caller that keeps asking for the next line
\* ------------------------------------------------------------------------
SpecDecodeFair == InitDecode /\ [][NextDecode]_vars /\ WF_vars(NextDecode)

\* Reads made by the last call of read_and_decode: bytes_read grows by
\* chunk_size with every read.
ReadsOfCall == gen.bytes_read \div cfg.chunk_size

ReadsBounded ==
  /\ gen.bytes_read = ReadsOfCall * cfg.chunk_size
  /\ ReadsOfCall <= (cfg.max_window \div cfg.chunk_size) + 1
  /\ gen.st = "raised" => ReadsOfCall = (cfg.max_window \div cfg.chunk_size) + 1

\* C24: every call of read_and_decode ends after at most
\* floor(max_window_size / chunk_size) + 1 reads, and yield_lines eventually
\* ends, by exhausting the stream or by raising the decode error.
C24_ReaderTerminates == [](pf.file >= 1 => ReadsBounded) /\ <>GenStopped

\* A stream ending in a truncated multi-byte character made the last call
\* read at the end of the stream until the window was passed, and raise.
C24_Witness ==
  /\ gen.st = "raised"
  /\ CurText # << >> /\ Last(CurText) = RawLead
  /\ gen.pos = Len(CurData)
  /\ ReadsOfCall >= 2
  /\ gen.bytes_read > gen.pos - gen.call_pos

\* ------------------------------------------------------------------------
\* Specification of a run over an input tree with sub-directories
\* ------------------------------------------------------------------------
SubDirs == << "in/a", "in/b" >>

TreeTexts ==
  { JoinLines(<< LineMatch >>), JoinLines(<< LineOther >>), JoinLines(<< LineInvalid >>) }

\* os.walk over the sub-directories in order, the file names of each sorted:
\* the paths os.path.join(subdir, file_name) are pairwise different.
WalkOrdered(fs) ==
  \A i, j \in 1..Len(fs) :
    i < j => \E a, b \in 1..Len(SubDirs) :
               /\ fs[i].dir = SubDirs[a] /\ fs[j].dir = SubDirs[b]
               /\ \/ a < b
                  \/ a = b /\ fs[i].base = "RC_1" /\ fs[j].base = "RC_2"

InitTree ==
  /\ cfg = FullConfig(SmallChunk, SmallWindow)
  /\ args = [value |-> ArgAbX, regex |-> FALSE]
  /\ \E n \in 1..MaxFiles :
       \E fs \in [1..n -> [dir : Range(SubDirs), base : { "RC_1", "RC_2" },
                           text : TreeTexts]] :
         /\ WalkOrdered(fs)
         /\ files = [i \in 1..n |->
                      [dir |-> fs[i].dir, base |-> fs[i].base, text |-> fs[i].text,
                       data |-> EncodeText(fs[i].text)]]
  /\ InitCommon

SpecTree == InitTree /\ [][NextRun]_vars

\* C25: the input files of a run have pairwise different output paths, so at
\* the end of the run the output of every file reported as written holds the
\* matched records of that file: no later file has overwritten it.
C25_OutputsKept ==
  main_pc = "summary" =>
    \A i \in 1..Len(results) :
      results[i].cause = "written" =>
        sink[generate_output_path(files[results[i].file])].rows
          = MatchedObjs(FileLines(results[i].file))

\* ------------------------------------------------------------------------
\* Sums over the first n result tuples of the lines and errors they report.
RECURSIVE SumLines(_)
SumLines(n) == IF n = 0 THEN 0 ELSE SumLines(n - 1) + results[n].lines

RECURSIVE SumErrors(_)
SumErrors(n) == IF n = 0 THEN 0 ELSE SumErrors(n - 1) + results[n].errors

\* The totals of main against the result tuples of the files completed.
TotalsAccount ==
  /\ totals.processed = idx - 1
  /\ totals.processed <= Len(results) /\ Len(results) <= totals.processed + 1
  /\ totals.lines = SumLines(totals.processed)
  /\ totals.errors = SumErrors(totals.processed)
  /\ totals.matched = SumMatched(totals.processed)
  /\ totals.matched = SumWritten(totals.processed)
  /\ \A i \in 1..Len(results) :
       results[i].cause \notin { "written", "no_matches" } => results[i].matched = 0
  /\ totals.matched + totals.errors <= totals.lines
  /\ main_pc = "summary" => totals.processed = Len(files)

\* Within one run no total decreases.
TotalsGrow ==
  (main_pc # "start" /\ main_pc' # "start") =>
    /\ totals'.processed >= totals.processed
    /\ totals'.lines >= totals.lines
    /\ totals'.matched >= totals.matched
    /\ totals'.errors >= totals.errors

\* C26: after every completed file total_processed is the number of files
\* completed, total_lines and total_errors are the sums of the per-file
\* counts, total_matched is the sum of the matches of the files written (a
\* failed file adds its lines and errors and 0 matches), matched plus errors
\* never exceeds lines, no total decreases during a run, and at the normal
\* end total_processed is the number of enumerated files.
C26_TotalsAccount == []TotalsAccount /\ [][TotalsGrow]_vars

\* A run of two files ended: one was written, the other failed after lines
\* of it were scanned.
C26_Witness ==
  /\ main_pc = "summary"
  /\ Len(results) = 2
  /\ \E i, j \in 1..2 :
       /\ results[i].cause = "written" /\ results[i].matched >= 1
       /\ results[j].cause \in { "decode_error", "write_error" } /\ results[j].lines >= 1
  /\ totals.matched >= 1
  /\ totals.lines > totals.matched

\* ------------------------------------------------------------------------
\* process_file_shell
\* ------------------------------------------------------------------------
pyVars == << main_pc, idx, gen, yielded, pf, mainVars, probeVars >>

\* The lines gsplit counts in the decompressed stream.
ShellLines(text) ==
  LET parts == Split(text)
  IN IF Last(parts) = << >> THEN AllButLast(parts) ELSE parts

\* gsplit -l chunk_size: the k-th group of chunk_size lines.
ChunkCount(lines, n) == (Len(lines) + n - 1) \div n
ChunkLines(lines, n, k) == SubSeq(lines, (k - 1) * n + 1, Min(k * n, Len(lines)))

\* jq -c on one group: the selected lines, written to chunk_<k>.json.
JqOutput(filter, lines) == SelectSeq(lines, LAMBDA l : jq_eval(filter, l) = "selected")
JqFails(filter, lines) == \E i \in 1..Len(lines) : jq_eval(filter, lines[i]) = "error"

\* The records json.loads gives for the lines of the chunk files read.
RECURSIVE ChunkRecords(_, _)
ChunkRecords(chunks, readable) ==
  IF chunks = << >> THEN << >>
  ELSE ChunkRecords(AllButLast(chunks), readable)
       \o (IF Len(chunks) \in readable
             THEN [i \in 1..Len(Last(chunks)) |-> json_loads(Strip(Last(chunks)[i])).val]
           ELSE << >>)

\* The return statements of process_file_shell: the tuple is evaluated, then
\* the finally clause runs.
ShellReturn(lines, matched, errors, path) ==
  [sh EXCEPT !.pc = "finally",
             !.ret = [lines |-> lines, matched |-> matched, errors |-> errors,
                      path |-> path]]

ShellOut == generate_output_path(files[1])

\* Lines 33-38: the jq filter is built, mkdtemp creates the directory.
ShellStart ==
  /\ main_pc = "shell"
  /\ sh.pc = "idle"
  /\ sh' = [sh EXCEPT !.pc = "run_cmd", !.temp_exists = TRUE]
  /\ UNCHANGED << inputVars, pyVars, sink >>

\* Lines 41-62: the pipeline runs and leaves its chunk files; a return code
\* other than 0 returns (file_path, 0, 0, 0).
ShellCommand ==
  /\ main_pc = "shell"
  /\ sh.pc = "run_cmd"
  /\ \E other_failure \in BOOLEAN :
     \E filter \in { build_jq_filter(Field, values, args.regex) } :
     \E lines \in { ShellLines(files[1].text) } :
     \E written \in { [k \in 1..ChunkCount(lines, sh.chunk_size) |->
                         JqOutput(filter, ChunkLines(lines, sh.chunk_size, k))] } :
       IF other_failure \/ JqFails(filter, lines)
         THEN sh' = [ShellReturn(0, 0, 0, "command_failed") EXCEPT !.chunks = written]
       ELSE sh' = [sh EXCEPT !.pc = "list", !.chunks = written]
  /\ UNCHANGED << inputVars, pyVars, sink >>

\* Lines 67-75: the chunk files are listed.
ShellListChunks ==
  /\ main_pc = "shell"
  /\ sh.pc = "list"
  /\ sh' = IF sh.chunks = << >> THEN ShellReturn(0, 0, 0, "no_chunks")
           ELSE [sh EXCEPT !.pc = "read"]
  /\ UNCHANGED << inputVars, pyVars, sink >>

\* Lines 79-97: every chunk file is read; a file that cannot be read is
\* logged and skipped.
ShellReadChunks ==
  /\ main_pc = "shell"
  /\ sh.pc = "read"
  /\ \E readable \in SUBSET (1..Len(sh.chunks)) :
     \E recs \in { ChunkRecords(sh.chunks, readable) } :
       sh' = IF recs = << >>
               THEN ShellReturn(sh.lines_processed, 0, sh.error_lines, "no_records")
             ELSE [sh EXCEPT !.pc = "write", !.all_records = recs,
                             !.lines_processed = Len(recs)]
  /\ UNCHANGED << inputVars, pyVars, sink >>

\* Lines 101-123: the records are written and the tuple is returned.
ShellWrite ==
  /\ main_pc = "shell"
  /\ sh.pc = "write"
  /\ sink' = [sink EXCEPT ![ShellOut] = [exists |-> TRUE, rows |-> sh.all_records]]
  /\ sh' = ShellReturn(sh.lines_processed, Len(sh.all_records), sh.error_lines, "written")
  /\ UNCHANGED << inputVars, pyVars >>

\* Lines 125-127: an exception anywhere in the try block.
ShellException ==
  /\ main_pc = "shell"
  /\ sh.pc \in { "run_cmd", "list", "read", "write" }
  /\ sink' = IF sh.pc = "write"
               THEN [sink EXCEPT ![ShellOut] = [exists |-> TRUE, rows |-> << >>]]
             ELSE sink
  /\ sh' = ShellReturn(sh.lines_processed, 0, sh.error_lines, "exception")
  /\ UNCHANGED << inputVars, pyVars >>

\* A clean-up placed at the end of the try block: only the successful
\* write reaches it.
ShellFinallySuccessOnly ==
  /\ main_pc = "shell"
  /\ sh.pc = "finally"
  /\ \E removed \in BOOLEAN :
       sh' = [sh EXCEPT !.pc = "returned",
                        !.temp_exists = IF sh.ret.path = "written" THEN ~removed ELSE @,
                        !.rm_failed = sh.ret.path = "written" /\ ~removed]
  /\ UNCHANGED << inputVars, pyVars, sink >>

\* Lines 129-133: shutil.rmtree in the finally clause; its failure is logged.
ShellFinally ==
  /\ main_pc = "shell"
  /\ sh.pc = "finally"
  /\ \E removed \in BOOLEAN :
       sh' = [sh EXCEPT !.pc = "returned", !.temp_exists = ~removed,
                        !.rm_failed = ~removed]
  /\ UNCHANGED << inputVars, pyVars, sink >>

ShellTexts ==
  { JoinLines(ls) \o tail :
      ls \in UNION { [1..k -> { LineMatch, LineOther, LineNoField, LineGarbage }] :
                       k \in 0..MaxLines },
      tail \in { << >>, LineOther } }

InitShell ==
  /\ cfg = FullConfig(BigChunk, BigChunk)
  /\ args \in { [value |-> ArgAb, regex |-> FALSE], [value |-> ArgAbX, regex |-> FALSE] }
  /\ \E t \in ShellTexts : files = << InputFile("RC_1", t) >>
  /\ main_pc = "shell"
  /\ idx = 1
  /\ gen = GenInit
  /\ yielded = << >>
  /\ pf = PfInit
  /\ \E order \in Orders(RawValues(args.value)) :
       values = load_filter_values(args.value, args.regex, order).values
  /\ totals = TotalsInit
  /\ results = << >>
  /\ sink = [p \in OutPaths |-> NoFile]
  /\ run = 1
  /\ probe = NoProbe
  /\ verdict = NoVerdict
  /\ \E n \in 1..MaxLines : sh = ShInit(n)

NextShell ==
  \/ ShellStart \/ ShellCommand \/ ShellListChunks \/ ShellReadChunks
  \/ ShellWrite \/ ShellException \/ ShellFinally

SpecShell == InitShell /\ [][NextShell]_vars

\* The tuple each return statement of process_file_shell builds.
TupleOfPath ==
  CASE sh.ret.path \in { "command_failed", "no_chunks" } ->
         [lines |-> 0, matched |-> 0, errors |-> 0, path |-> sh.ret.path]
    [] sh.ret.path = "written" ->
         [lines |-> sh.lines_processed, matched |-> Len(sh.all_records),
          errors |-> sh.error_lines, path |-> sh.ret.path]
    [] OTHER ->
         [lines |-> sh.lines_processed, matched |-> 0, errors |-> sh.error_lines,
          path |-> sh.ret.path]

ShellCleanedUp ==
  /\ sh.temp_exists => sh.pc # "idle"
  /\ sh.pc = "returned" =>
       /\ sh.temp_exists => sh.rm_failed
       /\ sh.ret = TupleOfPath
       /\ sh.ret.path \in { "command_failed", "no_chunks", "no_records", "written",
                            "exception" }

RemovalKeepsTuple ==
  sh.pc = "finally" => sh'.ret = sh.ret

\* C27: on every return path of process_file_shell (command failure, no
\* chunk files, no valid records, successful write, exception) the temporary
\* directory is gone after the return unless its removal failed, and the
\* removal leaves the tuple the return statement built unchanged.
C27_TempDirRemoved == []ShellCleanedUp /\ [][RemovalKeepsTuple]_vars

\* The function returned through the except clause after chunk files were
\* written, and the directory is gone.
C27_Witness ==
  /\ sh.pc = "returned"
  /\ sh.ret.path = "exception"
  /\ sh.chunks # << >>
  /\ ~sh.temp_exists

====
